---- MODULE Spec2Model ----
(***************************************************************************)
(* The reshape engine of Cleaning_Air_Data/format_by_location.py:          *)
(* column resolution, the long projection, the wide pivot with its label   *)
(* scheme, the per-group split into sheets and the sheet-name sanitizer.   *)
(*                                                                         *)
(* Python values are records [t, s, n, d]: t is the type tag, s the        *)
(* characters of a str (a sequence of one-character strings), n/d the      *)
(* number of a float in ten-thousandths (d = 1 except for a mean, kept as  *)
(* an exact fraction), and n the yyyymmdd number of a date.                *)
(* A table is [cols, rows]: the column names in order and the rows, each a *)
(* sequence of cells aligned with cols.                                    *)
(***************************************************************************)
EXTENDS Integers, Sequences, FiniteSets, TLC

VARIABLES
    pc,             \* position of the modelled call or of main
    sheet_arg,      \* safe_sheet_name: the argument
    sheet_keys,     \* the group key whose sheet is being named
    sheet,          \* the sheet name produced
    lab_pollutants, \* label_style_map: the pollutants argument
    lab_use_abc,    \* label_style_map: the use_abc argument
    lab_out,        \* label_style_map: the outcome
    lp_df,          \* make_long_df: the table argument
    lp_date_col,    \* make_long_df: date_col
    lp_value_col,   \* make_long_df: value_col
    lp_group_cols,  \* make_long_df: group_cols
    lp_first,       \* outcome of make_long_df on lp_df
    lp_second,      \* outcome of make_long_df on the table of lp_first
    in_file,        \* main: in_file, "" when no file was selected
    out_dir,        \* main: out_dir, "" when no folder was selected
    csv,            \* main: the table pd.read_csv returned
    df,             \* main: df
    date_col,       \* main: date_col
    val_col,        \* main: val_col
    group_cols,     \* main: group_cols
    style,          \* main: style
    wide,           \* main: wide
    long_df,        \* main: long_df
    rename_map,     \* main: rename_map
    groups,         \* main: the (key, sheet, sub-table) triples the groupby loop wrote
    written,        \* main: the kind of file written, "" while none is
    res_df,         \* coalesce / pick_first: the table argument
    res_candidates, \* coalesce / pick_first: the list of candidate names
    res_out,        \* the outcome of the two calls
    cfg_df,         \* choose_grouping: the table argument
    cfg_date_entry, \* the answer to the date-column dialog
    cfg_value_entry,\* the answer to the value-column dialog
    cfg_choice,     \* the value ask_choice returns for the grouping
    cfg_custom,     \* the answer to the custom-grouping dialog
    cfg_out,        \* the outcome of choose_grouping
    dna_string,     \* transcribed_dna.py: the module global dna_string
    rna_arg,        \* transcribed_dna: the argument of the call
    rna_string      \* transcribed_dna: the outcome of the call

sheetVars == <<sheet_arg, sheet_keys, sheet>>
labVars == <<lab_pollutants, lab_use_abc, lab_out>>
lpVars == <<lp_df, lp_date_col, lp_value_col, lp_group_cols, lp_first, lp_second>>
mainVars == <<in_file, out_dir, csv, df, date_col, val_col, group_cols, style, wide, long_df,
              rename_map, groups, written>>
resVars == <<res_df, res_candidates, res_out>>
cfgVars == <<cfg_df, cfg_date_entry, cfg_value_entry, cfg_choice, cfg_custom, cfg_out>>
rnaVars == <<dna_string, rna_arg, rna_string>>
vars == <<pc, sheetVars, labVars, lpVars, mainVars, resVars, cfgVars, rnaVars>>

(***************************************************************************)
(* Bounds of the model.                                                    *)
(***************************************************************************)
\* longest run of one repeated character on either side of a sheet-name input
MaxPad == 17
\* most components of a group key handed to the sheet-name code
MaxKeyLen == 2
\* most rows of an input table
MaxRows == 2
\* most pollutant names handed to label_style_map in one call
MaxPollutants == 27
\* longest pollutant list handed to label_style_map in every order
MaxPermuted == 3
\* most columns of a table handed to the column resolver
MaxColumns == 3
\* most candidate names handed to the column resolver
MaxAliases == 3
\* longest DNA string handed to transcribed_dna
MaxDna == 3

(***************************************************************************)
(* Python values.                                                          *)
(***************************************************************************)
None_ == [t |-> "None", s |-> <<>>, n |-> 0, d |-> 1]
NaN == [t |-> "nan", s |-> <<>>, n |-> 0, d |-> 1]
NaT == [t |-> "nat", s |-> <<>>, n |-> 0, d |-> 1]
Str(x) == [t |-> "str", s |-> x, n |-> 0, d |-> 1]
Num(x) == [t |-> "num", s |-> <<>>, n |-> x, d |-> 1]
DateV(x) == [t |-> "date", s |-> <<>>, n |-> x, d |-> 1]

\* `not s` for the values a sheet name can be: None and "" are falsy
Falsy(v) == v.t = "None" \/ (v.t = "str" /\ v.s = <<>>)

\* pd.notna(k)
notna(v) == v.t \notin {"nan", "nat", "None"}

\* str.replace(old, new) for one-character old and new
Replace(s, old, new) == [i \in 1..Len(s) |-> IF s[i] = old THEN new ELSE s[i]]

\* sep.join(parts) on sequences of characters
RECURSIVE Join(_, _)
Join(parts, sep) ==
    IF Len(parts) = 0 THEN <<>>
    ELSE IF Len(parts) = 1 THEN parts[1]
    ELSE parts[1] \o sep \o Join(Tail(parts), sep)

\* c repeated k times
Rep(c, k) == [i \in 1..k |-> c]

\* the concatenation of a sequence of sequences
RECURSIVE Concat(_)
Concat(ss) == IF Len(ss) = 0 THEN <<>> ELSE ss[1] \o Concat(Tail(ss))

\* the elements of a sequence
Range(xs) == {xs[i] : i \in 1..Len(xs)}

Min(a, b) == IF a < b THEN a ELSE b

\* the printable ASCII characters in code-point order, from 32 (the
\* backtick, which no modelled text holds, is spelled out)
Ascii == <<
    " ", "!", "\"", "#", "$", "%", "&", "'", "(", ")", "*", "+",
    ",", "-", ".", "/", "0", "1", "2", "3", "4", "5", "6", "7",
    "8", "9", ":", ";", "<", "=", ">", "?", "@", "A", "B", "C",
    "D", "E", "F", "G", "H", "I", "J", "K", "L", "M", "N", "O",
    "P", "Q", "R", "S", "T", "U", "V", "W", "X", "Y", "Z", "[",
    "\\", "]", "^", "_", "backtick", "a", "b", "c", "d", "e", "f", "g",
    "h", "i", "j", "k", "l", "m", "n", "o", "p", "q", "r", "s",
    "t", "u", "v", "w", "x", "y", "z", "{", "|", "}", "~">>

\* ord(c)
Ord(c) == 31 + (CHOOSE i \in 1..Len(Ascii) : Ascii[i] = c)

\* a < b on str: lexicographic by code point
LexLess(a, b) ==
    \/ \E i \in 1..Min(Len(a), Len(b)) :
        /\ \A j \in 1..(i - 1) : a[j] = b[j]
        /\ Ord(a[i]) < Ord(b[i])
    \/ /\ Len(a) < Len(b)
       /\ \A j \in 1..Len(a) : a[j] = b[j]

\* a < b on the values of one column (same type on both sides)
ValueLess(a, b) ==
    IF a.t = "str" /\ b.t = "str" THEN LexLess(a.s, b.s)
    ELSE a.n * b.d < b.n * a.d

\* a < b on tuples of values, as Python compares tuples
TupleLess(a, b) ==
    \E i \in 1..Min(Len(a), Len(b)) :
        /\ \A j \in 1..(i - 1) : a[j] = b[j]
        /\ ValueLess(a[i], b[i])

\* sorted(xs) for a list of tuples of values: stable, as Python's sort is
Sorted(xs) ==
    LET n == Len(xs)
        Before(i, j) ==
            TupleLess(xs[i], xs[j]) \/ (~TupleLess(xs[j], xs[i]) /\ i < j)
    IN [k \in 1..n |->
            xs[CHOOSE i \in 1..n : Cardinality({j \in 1..n : Before(j, i)}) = k - 1]]

\* sorted(xs) for a list of str
SortedStrings(xs) ==
    LET s == Sorted([i \in 1..Len(xs) |-> <<Str(xs[i])>>])
    IN [i \in 1..Len(xs) |-> s[i][1].s]

\* the distinct elements of xs in order of first appearance
RECURSIVE Unique(_)
Unique(xs) ==
    IF Len(xs) = 0 THEN <<>>
    ELSE LET front == SubSeq(xs, 1, Len(xs) - 1)
             u == Unique(front)
         IN IF xs[Len(xs)] \in Range(u) THEN u ELSE Append(u, xs[Len(xs)])

Digits == {"0", "1", "2", "3", "4", "5", "6", "7", "8", "9"}
IsDigits(s) == \A i \in 1..Len(s) : s[i] \in Digits

\* the value of a string of decimal digits
RECURSIVE DigitsValue(_)
DigitsValue(s) ==
    IF Len(s) = 0 THEN 0
    ELSE DigitsValue(SubSeq(s, 1, Len(s) - 1)) * 10 + (Ord(s[Len(s)]) - 48)

RECURSIVE Pow10(_)
Pow10(k) == IF k = 0 THEN 1 ELSE 10 * Pow10(k - 1)

RECURSIVE GCD(_, _)
GCD(a, b) == IF b = 0 THEN a ELSE GCD(b, a % b)

\* the float a/b (a >= 0, b > 0), kept exact
Frac(a, b) ==
    LET g == GCD(a, b)
    IN [t |-> "num", s |-> <<>>, n |-> a \div (IF g = 0 THEN 1 ELSE g),
        d |-> b \div (IF g = 0 THEN b ELSE g)]

\* float(s) for an unsigned decimal literal of at most four decimals, the
\* only numeric strings of the modelled inputs; any other string is not a
\* number, which errors="coerce" turns into NaN
ParseNumber(s) ==
    LET dots == {i \in 1..Len(s) : s[i] = "."}
    IN IF dots = {} THEN
           IF s # <<>> /\ IsDigits(s) THEN Num(DigitsValue(s) * 10000) ELSE NaN
       ELSE IF Cardinality(dots) = 1 THEN
           LET p == CHOOSE i \in dots : TRUE
               ip == SubSeq(s, 1, p - 1)
               fp == SubSeq(s, p + 1, Len(s))
           IN IF /\ IsDigits(ip) /\ IsDigits(fp)
                 /\ (ip # <<>> \/ fp # <<>>)
                 /\ Len(fp) <= 4
              THEN Num(DigitsValue(ip) * 10000
                       + DigitsValue(fp) * Pow10(4 - Len(fp)))
              ELSE NaN
       ELSE NaN

\* the date of an ISO "YYYY-MM-DD" string, the only date format of the
\* modelled inputs; any other string is not a date, which errors="coerce"
\* turns into NaT
ParseDate(s) ==
    IF /\ Len(s) = 10
       /\ s[5] = "-" /\ s[8] = "-"
       /\ IsDigits(SubSeq(s, 1, 4)) /\ IsDigits(SubSeq(s, 6, 7))
       /\ IsDigits(SubSeq(s, 9, 10))
    THEN LET y == DigitsValue(SubSeq(s, 1, 4))
             m == DigitsValue(SubSeq(s, 6, 7))
             dd == DigitsValue(SubSeq(s, 9, 10))
         IN IF m \in 1..12 /\ dd \in 1..31 /\ y >= 1
            THEN DateV(y * 10000 + m * 100 + dd) ELSE NaT
    ELSE NaT

\* pd.to_datetime(x, errors="coerce") followed by .dt.date, on one cell
to_datetime_date_strings_only(v) ==
    IF v.t = "str" THEN ParseDate(v.s) ELSE NaT
to_datetime_date(v) ==
    CASE v.t = "date" -> v
      [] v.t = "str" -> ParseDate(v.s)
      [] OTHER -> NaT

\* Series.round(3) on one float, half to even
Round3(x) ==
    LET q == x \div 10
        r == x % 10
    IN IF r < 5 THEN q * 10
       ELSE IF r > 5 THEN (q + 1) * 10
       ELSE IF q % 2 = 0 THEN q * 10 ELSE (q + 1) * 10

\* pd.to_numeric(x, errors="coerce") on one cell
to_numeric(v) ==
    CASE v.t = "num" -> v
      [] v.t = "str" -> ParseNumber(v.s)
      [] OTHER -> NaN

\* pd.to_numeric(x, errors="coerce").round(3) on one cell
to_numeric_round(v) ==
    LET x == to_numeric(v)
    IN IF x.t = "num" THEN Num(Round3(x.n)) ELSE x

(***************************************************************************)
(* The column names and cell texts of the program and of the inputs.        *)
(***************************************************************************)
DateName == <<"D", "a", "t", "e">>
DateLocal == <<"D", "a", "t", "e", " ", "L", "o", "c", "a", "l">>
DateObserved == <<"D", "a", "t", "e", " ", "O", "b", "s", "e", "r", "v", "e", "d">>
DateGMT == <<"D", "a", "t", "e", " ", "G", "M", "T">>
SampleID == <<"S", "a", "m", "p", "l", "e", " ", "I", "D">>
SampleIDNoSpace == <<"S", "a", "m", "p", "l", "e", "I", "D">>
Sample_Id == <<"S", "a", "m", "p", "l", "e", "_", "I", "d">>
PollutantName == <<"P", "o", "l", "l", "u", "t", "a", "n", "t", " ", "N", "a", "m", "e">>
Pollutant == <<"P", "o", "l", "l", "u", "t", "a", "n", "t">>
SampleDuration == <<"S", "a", "m", "p", "l", "e", " ", "D", "u", "r", "a", "t", "i", "o", "n">>
Sample_Duration == <<"S", "a", "m", "p", "l", "e", "_", "D", "u", "r", "a", "t", "i", "o", "n">>
Duration == <<"D", "u", "r", "a", "t", "i", "o", "n">>
ArithmeticMean == <<"A", "r", "i", "t", "h", "m", "e", "t", "i", "c", " ", "M", "e", "a", "n">>
ArithmeticMeanLower == <<"A", "r", "i", "t", "h", "m", "e", "t", "i", "c", " ", "m", "e", "a", "n">>
FirstMaxValue == <<"1", "s", "t", " ", "M", "a", "x", " ", "V", "a", "l", "u", "e">>
StateName == <<"S", "t", "a", "t", "e", " ", "N", "a", "m", "e">>
State == <<"S", "t", "a", "t", "e">>
CityName == <<"C", "i", "t", "y", " ", "N", "a", "m", "e">>
City == <<"C", "i", "t", "y">>
CountyName == <<"C", "o", "u", "n", "t", "y", " ", "N", "a", "m", "e">>
County == <<"C", "o", "u", "n", "t", "y">>
SiteNum == <<"S", "i", "t", "e", " ", "N", "u", "m">>
SiteNumber == <<"S", "i", "t", "e", " ", "N", "u", "m", "b", "e", "r">>
CBSAName == <<"C", "B", "S", "A", " ", "N", "a", "m", "e">>
CBSA == <<"C", "B", "S", "A">>
CBSAName2018 == <<"C", "B", "S", "A", " ", "N", "a", "m", "e", " ", "(", "2", "0", "1", "8", ")">>
CBSACode == <<"C", "B", "S", "A", " ", "C", "o", "d", "e">>
Latitude == <<"L", "a", "t", "i", "t", "u", "d", "e">>
SiteLatitude == <<"S", "i", "t", "e", " ", "L", "a", "t", "i", "t", "u", "d", "e">>
Lat == <<"L", "a", "t">>
Longitude == <<"L", "o", "n", "g", "i", "t", "u", "d", "e">>
SiteLongitude == <<"S", "i", "t", "e", " ", "L", "o", "n", "g", "i", "t", "u", "d", "e">>
Lon == <<"L", "o", "n">>
Long == <<"L", "o", "n", "g">>
All == <<"A", "l", "l">>
NO2 == <<"N", "O", "2">>
PM25 == <<"P", "M", "2", ".", "5">>
PM10 == <<"P", "M", "1", "0">>
Maryland == <<"M", "a", "r", "y", "l", "a", "n", "d">>
Iowa == <<"I", "o", "w", "a">>
PollutantPrefix == <<"P", "o", "l", "l", "u", "t", "a", "n", "t", " ">>

(***************************************************************************)
(* safe_sheet_name                                                         *)
(***************************************************************************)
\* Excel's limit on the length of a sheet name
SheetNameMax == 31

Sheet1 == <<"S", "h", "e", "e", "t", "1">>

\* the chain of str.replace calls of safe_sheet_name
SheetReplaceOmitStar(s) ==
    Replace(Replace(Replace(Replace(Replace(Replace(
        s, "/", "-"), ":", "-"), "\\", "-"), "?", "-"), "[", "("), "]", ")")
SheetReplace(s) ==
    Replace(Replace(Replace(Replace(Replace(Replace(Replace(
        s, "/", "-"), ":", "-"), "\\", "-"), "*", "-"), "?", "-"), "[", "("), "]", ")")

\* s[:31] if len(s) > 31 else s
SheetTruncateOffByOne(s) ==
    IF Len(s) > SheetNameMax THEN SubSeq(s, 1, SheetNameMax + 1) ELSE s
SheetTruncate(s) ==
    IF Len(s) > SheetNameMax THEN SubSeq(s, 1, SheetNameMax) ELSE s

\* the `if not s: return "Sheet1"` guard
SheetFallbackMissing(v) == FALSE
SheetFallback(v) == Falsy(v)

safe_sheet_name(v) ==
    IF SheetFallback(v) THEN Str(Sheet1)
    ELSE Str(SheetTruncate(SheetReplace(v.s)))

\* the body of the `for keys, sub in ....groupby(group_cols)` loop that names
\* the sheet: "-".join([str(k) for k in keys if pd.notna(k)]), then
\* safe_sheet_name(sheet or "Sheet1")
SheetForGroup(keys) ==
    LET kept == SelectSeq(keys, notna)
        joined == Join([i \in 1..Len(kept) |-> kept[i].s], <<"-">>)
    IN safe_sheet_name(IF joined = <<>> THEN Str(Sheet1) ELSE Str(joined))

(***************************************************************************)
(* Inputs of the sheet-name specification.                                 *)
(***************************************************************************)
\* the characters safe_sheet_name replaces, their replacements, and others
SheetChars == {"/", ":", "\\", "*", "?", "[", "]", "-", "(", ")", "a", " "}
PadChars == {"a", "/", "]"}

SheetStrings ==
    {<<>>}
    \cup {<<c>> : c \in SheetChars}
    \cup {<<c, d>> : c \in SheetChars, d \in SheetChars}
    \cup {Rep(p[1], p[2]) \o <<p[3]>> \o Rep(p[4], p[5]) :
            p \in PadChars \X (0..MaxPad) \X SheetChars \X PadChars \X (0..MaxPad)}

SheetArgs == {None_} \cup {Str(x) : x \in SheetStrings}

KeyComponents ==
    {NaN, Str(<<>>), Str(<<"M", "D">>), Str(<<"a", "/", "b">>),
     Str(<<"[", "1", "]">>), Str(Rep("x", SheetNameMax + 1))}

RECURSIVE Tuples(_, _)
Tuples(S, k) ==
    IF k = 0 THEN {<<>>}
    ELSE {<<x>> \o t : x \in S, t \in Tuples(S, k - 1)}

GroupKeys == UNION {Tuples(KeyComponents, k) : k \in 1..MaxKeyLen}
(***************************************************************************)
(* Tables (pandas DataFrames).                                             *)
(***************************************************************************)
EmptyTable == [cols |-> <<>>, rows |-> <<>>]

\* c in df.columns
HasCol(t, c) == c \in Range(t.cols)

\* the positions of the columns named c, in order
Positions(t, c) ==
    LET IsC(i) == t.cols[i] = c
    IN SelectSeq([i \in 1..Len(t.cols) |-> i], IsC)

\* df[c] for a column name: the cells of the (first) column named c
Column(t, c) ==
    LET p == Positions(t, c)[1]
    IN [r \in 1..Len(t.rows) |-> t.rows[r][p]]

\* df[names] for a list of column names: the columns in the order listed
Select(t, names) ==
    LET idx == Concat([k \in 1..Len(names) |-> Positions(t, names[k])])
    IN [cols |-> [i \in 1..Len(idx) |-> t.cols[idx[i]]],
        rows |-> [r \in 1..Len(t.rows) |->
                    [i \in 1..Len(idx) |-> t.rows[r][idx[i]]]]]

\* df[c] = cells: overwrites the column named c, or appends a new column
SetColumn(t, c, cells) ==
    IF HasCol(t, c)
    THEN [cols |-> t.cols,
          rows |-> [r \in 1..Len(t.rows) |->
                      [i \in 1..Len(t.cols) |->
                          IF t.cols[i] = c THEN cells[r] ELSE t.rows[r][i]]]]
    ELSE [cols |-> Append(t.cols, c),
          rows |-> [r \in 1..Len(t.rows) |-> Append(t.rows[r], cells[r])]]

\* the rows of t at the positions listed
TakeRows(t, rs) == [cols |-> t.cols, rows |-> [k \in 1..Len(rs) |-> t.rows[rs[k]]]]

\* the outcome of a call: the exception raised ("" when none), the table
\* returned, and the caller's table as the call left it
Returned(t, arg) == [raised |-> "", df |-> t, arg |-> arg]
Raised(e, arg) == [raised |-> e, df |-> EmptyTable, arg |-> arg]

(***************************************************************************)
(* coalesce, ensure_date, pick_first                                       *)
(***************************************************************************)
\* a resolver that keeps looking after the first match
coalesce_last(t, candidates) ==
    LET hits == {i \in 1..Len(candidates) : HasCol(t, candidates[i])}
    IN IF hits = {} THEN None_
       ELSE Str(candidates[CHOOSE i \in hits : \A j \in hits : j <= i])
RECURSIVE coalesce(_, _)
coalesce(t, candidates) ==
    IF Len(candidates) = 0 THEN None_
    ELSE IF HasCol(t, candidates[1]) THEN Str(candidates[1])
    ELSE coalesce(t, Tail(candidates))

ensure_date(t, c) ==
    LET col == Column(t, c)
    IN SetColumn(t, c, [r \in 1..Len(t.rows) |-> to_datetime_date(col[r])])

LONG_BASE_CANDIDATES ==
    [sample_id |-> <<SampleID, SampleIDNoSpace, Sample_Id>>,
     pollutant_name |-> <<PollutantName, Pollutant>>,
     sample_duration |-> <<SampleDuration, Sample_Duration, Duration>>,
     date |-> <<DateName, DateLocal, DateObserved, DateGMT>>,
     value |-> <<ArithmeticMean, ArithmeticMeanLower, FirstMaxValue>>]

RECURSIVE pick_first(_, _)
pick_first(t, names) ==
    IF Len(names) = 0 THEN None_
    ELSE IF HasCol(t, names[1]) THEN Str(names[1])
    ELSE pick_first(t, Tail(names))

(***************************************************************************)
(* make_long_df                                                            *)
(***************************************************************************)
\* df["Date"] = pd.to_datetime(df[date_col], errors="coerce").dt.date
LongSetDate(t, c) ==
    LET col == Column(t, c)
    IN SetColumn(t, DateName, [r \in 1..Len(t.rows) |-> to_datetime_date(col[r])])

\* df[value_col] = pd.to_numeric(df[value_col], errors="coerce").round(3)
SetNumeric(t, c) ==
    LET col == Column(t, c)
    IN SetColumn(t, c, [r \in 1..Len(t.rows) |-> to_numeric_round(col[r])])

\* the `for c in group_cols` loop that extends `ordered`
RECURSIVE LongAppendGroupCols(_, _, _)
LongAppendGroupCols(ordered, gcols, t) ==
    IF Len(gcols) = 0 THEN ordered
    ELSE LongAppendGroupCols(
            IF gcols[1] \notin Range(ordered) /\ HasCol(t, gcols[1])
            THEN Append(ordered, gcols[1]) ELSE ordered,
            Tail(gcols), t)

\* the list `ordered` of make_long_df
LongOrdered(t, vcol, gcols) ==
    LET sid_col == pick_first(t, LONG_BASE_CANDIDATES.sample_id)
        pol_col == pick_first(t, LONG_BASE_CANDIDATES.pollutant_name)
        dur_col == pick_first(t, LONG_BASE_CANDIDATES.sample_duration)
        base == (IF sid_col # None_ THEN <<sid_col.s>> ELSE <<>>)
                \o (IF pol_col # None_ THEN <<pol_col.s>> ELSE <<>>)
                \o (IF dur_col # None_ THEN <<dur_col.s>> ELSE <<>>)
                \o <<DateName, vcol>>
        Exists(c) == HasCol(t, c)
    IN SelectSeq(LongAppendGroupCols(base, gcols, t), Exists)

\* long_df = df[ordered]
LongSelectDroppingMissing(t, ordered) ==
    LET s == Select(t, ordered)
        Complete(row) == \A i \in 1..Len(row) : notna(row[i])
    IN [cols |-> s.cols, rows |-> SelectSeq(s.rows, Complete)]
LongSelect(t, ordered) == Select(t, ordered)

\* df = df.copy(): the table the body works on, and whether it is the
\* body's own (writes to it do not reach the caller's table)
LongWorkingAlias(t) == [df |-> t, own |-> FALSE]
LongWorkingCopy(t) == [df |-> t, own |-> TRUE]

\* df[c] is a Series: exactly one column is named c (with several, df[c]
\* is a DataFrame, which pd.to_datetime and pd.to_numeric reject)
IsSeries(t, c) == Len(Positions(t, c)) = 1

\* make_long_df(df, date_col, value_col, group_cols); t is the caller's
\* table, and the caller sees every write made to a table that is not the
\* body's own
make_long_df(t, dcol, vcol, gcols) ==
    LET w == LongWorkingCopy(t)
        Seen(x) == IF w.own THEN t ELSE x
    IN IF ~HasCol(w.df, dcol) THEN Raised("KeyError", t)
       ELSE IF ~IsSeries(w.df, dcol) THEN Raised("ValueError", t)
       ELSE LET dated == LongSetDate(w.df, dcol)
            IN IF ~HasCol(dated, vcol) THEN Raised("KeyError", Seen(dated))
               ELSE IF ~IsSeries(dated, vcol) THEN Raised("TypeError", Seen(dated))
               ELSE LET valued == SetNumeric(dated, vcol)
                    IN Returned(LongSelect(valued, LongOrdered(valued, vcol, gcols)),
                                Seen(valued))
(***************************************************************************)
(* The values of the variables a specification does not use.               *)
(***************************************************************************)
IdleSheet == sheet_arg = None_ /\ sheet_keys = <<>> /\ sheet = None_
IdleLabel == lab_pollutants = <<>> /\ lab_use_abc = TRUE /\ lab_out = None_
IdleLong ==
    /\ lp_df = EmptyTable /\ lp_date_col = <<>> /\ lp_value_col = <<>>
    /\ lp_group_cols = <<>> /\ lp_first = Raised("", EmptyTable)
    /\ lp_second = Raised("", EmptyTable)
IdleMain ==
    /\ in_file = "" /\ out_dir = ""
    /\ csv = EmptyTable /\ df = EmptyTable /\ date_col = <<>> /\ val_col = <<>>
    /\ group_cols = <<>> /\ style = "" /\ wide = EmptyTable
    /\ long_df = EmptyTable /\ rename_map = <<>> /\ groups = <<>>
    /\ written = ""

IdleResolve == res_df = EmptyTable /\ res_candidates = <<>> /\ res_out = None_
IdleConfig ==
    /\ cfg_df = EmptyTable /\ cfg_date_entry = None_ /\ cfg_value_entry = None_
    /\ cfg_choice = "" /\ cfg_custom = None_ /\ cfg_out = None_
IdleRna == dna_string = None_ /\ rna_arg = None_ /\ rna_string = None_
(***************************************************************************)
(* label_style_map                                                         *)
(***************************************************************************)
abc == <<"A", "B", "C", "D", "E", "F", "G", "H", "I", "J", "K", "L", "M",
         "N", "O", "P", "Q", "R", "S", "T", "U", "V", "W", "X", "Y", "Z">>

\* f"Pollutant {abc[i]} ({p})" if use_abc else p, for the 1-based index i
LabelMissingBraces(i, p, useAbc) ==
    IF useAbc THEN PollutantPrefix \o <<"a", "b", "c", "[", "i", "]", " ", "(", "p", ")">>
    ELSE p
LabelFor(i, p, useAbc) ==
    IF useAbc THEN PollutantPrefix \o <<abc[i]>> \o <<" ", "(">> \o p \o <<")">>
    ELSE p

\* the outcome of label_style_map: the exception raised ("" when none) and
\* the dict returned, a function from pollutant names to labels
label_style_map(pols, useAbc) ==
    LET sorted == SortedStrings(pols)
        n == Len(sorted)
        \* the last index at which p is enumerated: later assignments to
        \* out[p] overwrite earlier ones
        Last(p) == CHOOSE i \in 1..n :
                      /\ sorted[i] = p
                      /\ \A j \in (i + 1)..n : sorted[j] # p
    IN IF useAbc /\ n > Len(abc)
       THEN [raised |-> "IndexError", map |-> <<>>]
       ELSE [raised |-> "",
             map |-> [p \in Range(pols) |-> LabelFor(Last(p), p, useAbc)]]

(***************************************************************************)
(* choose_grouping                                                         *)
(***************************************************************************)
GROUP_MAP ==
    [state |-> <<StateName, State>>,
     city |-> <<CityName, City>>,
     county |-> <<CountyName, County>>,
     site |-> <<SiteNum, SiteNumber>>,
     cbsa |-> <<CBSAName, CBSA, CBSAName2018, CBSACode>>,
     coordinates |-> <<Latitude, SiteLatitude, Lat, Longitude, SiteLongitude,
                       Lon, Long>>]

\* s.strip(), for the blanks of the modelled entries
RECURSIVE Strip(_)
Strip(s) ==
    IF Len(s) = 0 THEN s
    ELSE IF s[1] = " " THEN Strip(Tail(s))
    ELSE IF s[Len(s)] = " " THEN Strip(SubSeq(s, 1, Len(s) - 1))
    ELSE s

\* s.split(",")
RECURSIVE Split(_)
Split(s) ==
    LET commas == {i \in 1..Len(s) : s[i] = ","}
    IN IF commas = {} THEN <<s>>
       ELSE LET p == CHOOSE i \in commas : \A j \in commas : i <= j
            IN <<SubSeq(s, 1, p - 1)>> \o Split(SubSeq(s, p + 1, Len(s)))

\* [c.strip() for c in cols.split(",") if c.strip()]
CustomParts(s) ==
    LET pieces == Split(s)
        stripped == [i \in 1..Len(pieces) |-> Strip(pieces[i])]
        NonEmpty(x) == x # <<>>
    IN SelectSeq(stripped, NonEmpty)

\* the outcome of choose_grouping: the exception raised ("" when none), the
\* names its message lists, the table as the call left it (ensure_date
\* writes into the caller's table), and the configuration returned
Configured(t, dcol, vcol, gcols) ==
    [raised |-> "", error |-> "", missing |-> <<>>, df |-> t,
     date_col |-> dcol, val_col |-> vcol, group_cols |-> gcols]
ConfigError(e, names, t) ==
    [raised |-> "ValueError", error |-> e, missing |-> names, df |-> t,
     date_col |-> <<>>, val_col |-> <<>>, group_cols |-> <<>>]

\* missing = [c for c in parts if c not in df.columns]
FirstMissingColumn(t, parts) ==
    LET Missing(c) == ~HasCol(t, c)
        missing == SelectSeq(parts, Missing)
    IN IF missing = <<>> THEN <<>> ELSE <<missing[1]>>
MissingColumns(t, parts) ==
    LET Missing(c) == ~HasCol(t, c)
    IN SelectSeq(parts, Missing)

\* the grouping part of choose_grouping, from `choice = ask_choice(...)` on;
\* choice is the value ask_choice returned ("" for None) and custom the
\* text entered for a custom grouping
ChooseGroupCols(t, dcol, vcol, choice, custom) ==
    IF choice = "" THEN ConfigError("Invalid grouping choice.", <<>>, t)
    ELSE IF choice \in {"state", "city", "county", "site", "cbsa"} THEN
        LET col == coalesce(t, GROUP_MAP[choice])
        IN IF col = None_
           THEN ConfigError("Could not find a column for the choice.", <<>>, t)
           ELSE Configured(t, dcol, vcol, <<col.s>>)
    ELSE IF choice = "coordinates" THEN
        LET lat_col == coalesce(t, SubSeq(GROUP_MAP.coordinates, 1, 3))
            lon_col == coalesce(t, SubSeq(GROUP_MAP.coordinates, 4, 7))
        IN IF lat_col = None_ \/ lon_col = None_
           THEN ConfigError("Latitude/Longitude columns not found.", <<>>, t)
           ELSE Configured(t, dcol, vcol, <<lat_col.s, lon_col.s>>)
    ELSE IF choice = "custom" THEN
        IF Falsy(custom) THEN ConfigError("No custom columns provided.", <<>>, t)
        ELSE LET parts == CustomParts(custom.s)
                 missing == MissingColumns(t, parts)
             IN IF missing # <<>>
                THEN ConfigError("These columns were not found", missing, t)
                ELSE Configured(t, dcol, vcol, parts)
    ELSE Configured(t, dcol, vcol, <<>>)

\* val_col = "Arithmetic Mean" if "Arithmetic Mean" in df.columns else None,
\* and the answer to the value-column dialog when that gave None
ValueColFirstMaxDefault(t, value_entry) ==
    IF HasCol(t, ArithmeticMean) THEN Str(ArithmeticMean)
    ELSE IF HasCol(t, FirstMaxValue) THEN Str(FirstMaxValue)
    ELSE value_entry
ValueColOf(t, value_entry) ==
    IF HasCol(t, ArithmeticMean) THEN Str(ArithmeticMean) ELSE value_entry

\* choose_grouping(df); date_entry and value_entry are the texts entered
\* when the date or value column is asked for (None when cancelled)
choose_grouping(t, date_entry, value_entry, choice, custom) ==
    LET found == coalesce(t, <<DateName, DateLocal, DateObserved, DateGMT>>)
        dcol == IF found # None_ THEN found ELSE date_entry
    IN IF Falsy(dcol) \/ ~HasCol(t, dcol.s)
       THEN ConfigError("Date column not found.", <<>>, t)
       ELSE LET dated == ensure_date(t, dcol.s)
                vcol == ValueColOf(dated, value_entry)
            IN IF Falsy(vcol) \/ ~HasCol(dated, vcol.s)
               THEN ConfigError("Value column not found.", <<>>, dated)
               ELSE ChooseGroupCols(dated, dcol.s, vcol.s, choice, custom)

(***************************************************************************)
(* DataFrame.groupby and DataFrame.pivot_table                             *)
(***************************************************************************)
RECURSIVE SumSeq(_)
SumSeq(xs) == IF Len(xs) = 0 THEN 0 ELSE xs[1] + SumSeq(Tail(xs))

\* the cells of row r in the columns listed
KeyOf(t, r, cs) == [i \in 1..Len(cs) |-> t.rows[r][Positions(t, cs[i])[1]]]

\* groupby's default dropna=True: a row takes part only if no cell of its
\* key is missing
GroupbyKeeps(key) == \A i \in 1..Len(key) : notna(key[i])

\* the row numbers groupby(cs) keeps
GroupedRows(t, cs) ==
    LET Kept(r) == GroupbyKeeps(KeyOf(t, r, cs))
    IN SelectSeq([r \in 1..Len(t.rows) |-> r], Kept)

\* the keys of groupby(cs), in the sorted order groupby iterates them
GroupbyKeys(t, cs) ==
    LET rs == GroupedRows(t, cs)
    IN Sorted(Unique([k \in 1..Len(rs) |-> KeyOf(t, rs[k], cs)]))

\* for keys, sub in t.groupby(cs): the (keys, sub) pairs in order
groupby(t, cs) ==
    LET keys == GroupbyKeys(t, cs)
        rs == GroupedRows(t, cs)
    IN [g \in 1..Len(keys) |->
          LET Mine(r) == KeyOf(t, r, cs) = keys[g]
          IN [keys |-> keys[g], sub |-> TakeRows(t, SelectSeq(rs, Mine))]]

\* a mean that divides by the number of cells, missing ones included
MeanCountingMissing(cells) ==
    LET IsNum(v) == v.t = "num"
        nums == SelectSeq(cells, IsNum)
    IN IF Len(nums) = 0 THEN NaN
       ELSE Frac(SumSeq([i \in 1..Len(nums) |-> nums[i].n]), Len(cells))
\* aggfunc="mean" over the cells of one pivot cell: missing values are
\* skipped, and the mean of none is missing
Mean(cells) ==
    LET IsNum(v) == v.t = "num"
        nums == SelectSeq(cells, IsNum)
    IN IF Len(nums) = 0 THEN NaN
       ELSE Frac(SumSeq([i \in 1..Len(nums) |-> nums[i].n]), Len(nums))

\* df.pivot_table(index=index_cols, columns=pcol, values=vcol,
\*                aggfunc="mean").reset_index()
\* with the defaults dropna=True, sort=True: the rows are grouped by
\* index_cols + [pcol], a group whose mean is missing is dropped, and the
\* pollutant level is unstacked into sorted columns
pivot_table(t, index_cols, pcol, vcol) ==
    LET by == Append(index_cols, pcol)
        rs == GroupedRows(t, by)
        values == Column(t, vcol)
        \* the mean of the group (index key, pollutant)
        CellOf(key, p) ==
            LET Mine(r) == KeyOf(t, r, by) = Append(key, p)
                mine == SelectSeq(rs, Mine)
            IN Mean([k \in 1..Len(mine) |-> values[mine[k]]])
        Live(r) == notna(CellOf(KeyOf(t, r, index_cols), KeyOf(t, r, <<pcol>>)[1]))
        live == SelectSeq(rs, Live)
        keys == Sorted(Unique([k \in 1..Len(live) |-> KeyOf(t, live[k], index_cols)]))
        pols == Sorted(Unique([k \in 1..Len(live) |-> KeyOf(t, live[k], <<pcol>>)]))
    IN [cols |-> index_cols \o [j \in 1..Len(pols) |-> pols[j][1].s],
        rows |-> [k \in 1..Len(keys) |->
                    keys[k] \o [j \in 1..Len(pols) |-> CellOf(keys[k], pols[j][1])]]]

(***************************************************************************)
(* The inputs of main: the tables pd.read_csv may return and the answers   *)
(* to the dialogs.                                                         *)
(***************************************************************************)
IsoDay1 == <<"2", "0", "2", "5", "-", "0", "1", "-", "1", "0">>
NotADate == <<"b", "a", "d">>
NotANumber == <<"a", "b", "c">>
FourDecimals == <<"1", ".", "2", "3", "4", "6">>
SampleId1 == <<"N", "O", "2", "_", "1">>
Hours24 == <<"2", "4", " ", "H", "O", "U", "R">>
\* a date column under a name that is not one of the default ones
Sampled == <<"S", "a", "m", "p", "l", "e", "d">>

MainSchemas ==
    {<<StateName, DateLocal, PollutantName, ArithmeticMean>>,
     <<PollutantName, ArithmeticMean, DateName, State>>}

\* the cells a column may hold: 15.2, 16.0 and text that is no number;
\* Maryland and a blank
MainCells(c) ==
    CASE c \in {DateName, DateLocal} -> {Str(IsoDay1)}
      [] c \in {ArithmeticMean, FirstMaxValue} ->
            {Num(152000), Num(160000), Str(NotANumber)}
      [] c \in {StateName, State} -> {Str(Maryland), NaN}
      [] c = PollutantName -> {Str(NO2), Str(PM25)}
      [] OTHER -> {Str(Hours24)}

RECURSIVE MainRows(_)
MainRows(schema) ==
    IF Len(schema) = 0 THEN {<<>>}
    ELSE {<<x>> \o r : x \in MainCells(schema[1]), r \in MainRows(Tail(schema))}

\* a row with a date that cannot be parsed, and one of another state with
\* four decimals
MainOddRows(schema) ==
    {[i \in 1..Len(schema) |->
        CASE schema[i] \in {DateName, DateLocal} -> Str(NotADate)
          [] schema[i] \in {ArithmeticMean, FirstMaxValue} -> Num(98100)
          [] schema[i] \in {StateName, State} -> Str(Maryland)
          [] OTHER -> Str(PM25)],
     [i \in 1..Len(schema) |->
        CASE schema[i] \in {DateName, DateLocal} -> Str(IsoDay1)
          [] schema[i] \in {ArithmeticMean, FirstMaxValue} -> Str(FourDecimals)
          [] schema[i] \in {StateName, State} -> Str(Iowa)
          [] OTHER -> Str(NO2)]}

MainTablesOf(schema) ==
    {[cols |-> schema, rows |-> rows] :
        rows \in UNION {Tuples(MainRows(schema) \cup MainOddRows(schema), k) :
                          k \in 0..MaxRows}}

\* a table in which one pollutant of a state has a number and text, the
\* other only text, and another state has a number for that one
MixedTable ==
    [cols |-> <<StateName, DateLocal, PollutantName, ArithmeticMean>>,
     rows |-> <<<<Str(Maryland), Str(IsoDay1), Str(NO2), Num(152000)>>,
                <<Str(Maryland), Str(IsoDay1), Str(NO2), Str(NotANumber)>>,
                <<Str(Maryland), Str(IsoDay1), Str(PM25), Str(NotANumber)>>,
                <<Str(Iowa), Str(IsoDay1), Str(PM25), Num(98100)>>>>]

\* a table of two states whose names differ in one character, '/' or ':'
SlashColonTable ==
    [cols |-> <<StateName, DateLocal, PollutantName, ArithmeticMean>>,
     rows |-> <<<<Str(<<"A", "/", "B">>), Str(IsoDay1), Str(NO2), Num(152000)>>,
                <<Str(<<"A", ":", "B">>), Str(IsoDay1), Str(NO2), Num(160000)>>>>]

\* tables that lack the pollutant, the date, the default value or the
\* state column, a table with a date column of another name, the
\* mixed table and the table of two near-equal state names
MainOddTables ==
    {[cols |-> <<StateName, DateLocal, ArithmeticMean>>,
      rows |-> <<<<Str(Maryland), Str(IsoDay1), Num(152000)>>>>],
     [cols |-> <<StateName, PollutantName, ArithmeticMean>>,
      rows |-> <<<<Str(Maryland), Str(NO2), Num(152000)>>>>],
     [cols |-> <<StateName, DateGMT, PollutantName, FirstMaxValue>>,
      rows |-> <<<<Str(Iowa), Str(IsoDay1), Str(NO2), Num(152000)>>>>],
     [cols |-> <<Latitude, Longitude, DateName, PollutantName, ArithmeticMean>>,
      rows |-> <<<<Num(392900000), Num(0 - 766100000), Str(IsoDay1), Str(NO2),
                   Num(152000)>>>>],
     [cols |-> <<StateName, Sampled, PollutantName, ArithmeticMean>>,
      rows |-> <<<<Str(Maryland), Str(IsoDay1), Str(PM25), Num(98100)>>,
                 <<Str(Maryland), Str(IsoDay1), Str(NO2), Num(152000)>>>>],
     MixedTable, SlashColonTable}

MainTables == UNION {MainTablesOf(schema) : schema \in MainSchemas} \cup MainOddTables

DateEntries == {None_, Str(DateName), Str(Sampled)}
ValueEntries == {None_, Str(FirstMaxValue), Str(ArithmeticMeanLower)}
Choices == {"", "state", "city", "coordinates", "custom"}
CustomEntries ==
    {None_, Str(<<>>), Str(<<",">>), Str(<<" ">> \o StateName \o <<" ", ",", ",">>),
     Str(City \o <<",">> \o StateName \o <<",", " ">> \o County)}

(***************************************************************************)
(* main: one action per step, pc naming the step to run next.              *)
(***************************************************************************)
\* index_cols = group_cols + [date_col]
IndexCols == Append(group_cols, date_col)

\* in_file = pick_file(); an empty selection ends main
PickFile ==
    /\ pc = "pick_file"
    /\ in_file' \in {"", "combined.csv"}
    /\ pc' = IF in_file' # "" THEN "read_csv" ELSE "returned"
    /\ UNCHANGED <<sheetVars, labVars, lpVars, resVars, cfgVars, rnaVars,
                   out_dir, csv, df, date_col, val_col, group_cols, style,
                   wide, long_df, rename_map, groups, written>>

\* df = pd.read_csv(in_file); a read error ends main
ReadCsv ==
    /\ pc = "read_csv"
    /\ \/ /\ \E t \in MainTables : csv' = t /\ df' = t
          /\ pc' = "check_pollutant"
       \/ /\ pc' = "returned"
          /\ UNCHANGED <<csv, df>>
    /\ UNCHANGED <<sheetVars, labVars, lpVars, resVars, cfgVars, rnaVars,
                   in_file, out_dir, date_col, val_col, group_cols,
                   style, wide, long_df, rename_map, groups, written>>

\* if "Pollutant Name" not in df.columns: return
CheckPollutant ==
    /\ pc = "check_pollutant"
    /\ pc' = IF HasCol(df, PollutantName) THEN "filter_df" ELSE "returned"
    /\ UNCHANGED <<sheetVars, labVars, lpVars, resVars, cfgVars, rnaVars, mainVars>>

\* df = filter_df(df), the filter question answered No (or the filter type
\* left empty): filter_df returns df as it is
FilterDf ==
    /\ pc = "filter_df"
    /\ pc' = "choose_grouping"
    /\ UNCHANGED <<sheetVars, labVars, lpVars, resVars, cfgVars, rnaVars, mainVars>>

\* df, date_col, val_col, group_cols = choose_grouping(df); an exception
\* ends main. A dialog is answered only where choose_grouping shows it.
ChooseGrouping ==
    /\ pc = "choose_grouping"
    /\ \E date_entry \in
            (IF coalesce(df, <<DateName, DateLocal, DateObserved, DateGMT>>) = None_
             THEN DateEntries ELSE {None_}),
          value_entry \in
            (IF HasCol(df, ArithmeticMean) THEN {None_} ELSE ValueEntries),
          choice \in Choices :
        \E custom \in (IF choice = "custom" THEN CustomEntries ELSE {None_}) :
            LET r == choose_grouping(df, date_entry, value_entry, choice, custom)
            IN /\ df' = r.df
               /\ date_col' = r.date_col
               /\ val_col' = r.val_col
               /\ group_cols' = r.group_cols
               /\ pc' = IF r.raised = "" THEN "ask_style" ELSE "returned"
    /\ UNCHANGED <<sheetVars, labVars, lpVars, resVars, cfgVars, rnaVars,
                   in_file, out_dir, csv, style, wide, long_df,
                   rename_map, groups, written>>

\* style = (style or "LONG").strip().upper(): WIDE, or anything else
AskStyle ==
    /\ pc = "ask_style"
    /\ style' \in {"WIDE", "LONG"}
    /\ pc' = "pick_folder"
    /\ UNCHANGED <<sheetVars, labVars, lpVars, resVars, cfgVars, rnaVars,
                   in_file, out_dir, csv, df, date_col, val_col,
                   group_cols, wide, long_df, rename_map, groups, written>>

\* out_dir = pick_folder(); no folder ends main
PickFolderIgnoringCancel ==
    /\ pc = "pick_folder"
    /\ out_dir' \in {"", "out"}
    /\ pc' = IF style = "WIDE" THEN "pivot" ELSE "make_long_df"
    /\ UNCHANGED <<sheetVars, labVars, lpVars, resVars, cfgVars, rnaVars,
                   in_file, csv, df, date_col, val_col, group_cols, style,
                   wide, long_df, rename_map, groups, written>>
PickFolder ==
    /\ pc = "pick_folder"
    /\ out_dir' \in {"", "out"}
    /\ pc' = IF out_dir' = "" THEN "returned"
             ELSE IF style = "WIDE" THEN "pivot" ELSE "make_long_df"
    /\ UNCHANGED <<sheetVars, labVars, lpVars, resVars, cfgVars, rnaVars,
                   in_file, csv, df, date_col, val_col, group_cols, style,
                   wide, long_df, rename_map, groups, written>>

\* the wide branch up to the pivot: the value column made numeric, then
\* wide = df.pivot_table(...).reset_index()
PivotWide ==
    /\ pc = "pivot"
    /\ df' = SetNumeric(df, val_col)
    /\ wide' = pivot_table(df', IndexCols, PollutantName, val_col)
    /\ pc' = "label"
    /\ UNCHANGED <<sheetVars, labVars, lpVars, resVars, cfgVars, rnaVars,
                   in_file, out_dir, csv, date_col, val_col,
                   group_cols, style, long_df, rename_map, groups, written>>

\* wide.rename(columns=rename_map)
Rename(t, map) ==
    [cols |-> [i \in 1..Len(t.cols) |->
                 IF t.cols[i] \in DOMAIN map THEN map[t.cols[i]] ELSE t.cols[i]],
     rows |-> t.rows]

\* the columns of wide put in order: front, then the remaining ones
ReorderKeepingPivotOrder(t, dcol, pol_named) == t
Reorder(t, dcol, pol_named) ==
    LET front == <<dcol>> \o pol_named
        NotFront(c) == c \notin Range(front)
        Exists(c) == HasCol(t, c)
        remaining == SelectSeq(t.cols, NotFront)
    IN Select(t, SelectSeq(front, Exists) \o remaining)

\* the wide branch from the label question to wide = wide[ordered_cols];
\* an IndexError of label_style_map is not caught
LabelWide ==
    /\ pc = "label"
    /\ \E use_abc \in BOOLEAN :
        LET NotIndex(c) == c \notin Range(IndexCols)
            pol_cols == SelectSeq(wide.cols, NotIndex)
            r == label_style_map(pol_cols, use_abc)
            pol_named == [i \in 1..Len(pol_cols) |-> r.map[pol_cols[i]]]
        IN IF r.raised # ""
           THEN pc' = "crashed" /\ UNCHANGED <<rename_map, wide>>
           ELSE /\ rename_map' = r.map
                /\ wide' = Reorder(Rename(wide, r.map), date_col, pol_named)
                /\ pc' = "export"
    /\ UNCHANGED <<sheetVars, labVars, lpVars, resVars, cfgVars, rnaVars,
                   in_file, out_dir, csv, df, date_col, val_col,
                   group_cols, style, long_df, groups, written>>

\* long_df = make_long_df(df, date_col, val_col, group_cols)
MakeLong ==
    /\ pc = "make_long_df"
    /\ LET r == make_long_df(df, date_col, val_col, group_cols)
       IN /\ df' = r.arg
          /\ IF r.raised # ""
             THEN pc' = "crashed" /\ UNCHANGED long_df
             ELSE long_df' = r.df /\ pc' = "export"
    /\ UNCHANGED <<sheetVars, labVars, lpVars, resVars, cfgVars, rnaVars,
                   in_file, out_dir, csv, date_col, val_col,
                   group_cols, style, wide, rename_map, groups, written>>

\* the sheets the `with pd.ExcelWriter(...)` block writes for table t: one
\* per group of t.groupby(group_cols), or the sheet "All"
SheetsOf(t) ==
    IF group_cols # <<>>
    THEN LET gs == groupby(t, group_cols)
         IN [g \in 1..Len(gs) |->
               [keys |-> gs[g].keys, sheet |-> SheetForGroup(gs[g].keys),
                sub |-> gs[g].sub]]
    ELSE <<[keys |-> <<>>, sheet |-> Str(All), sub |-> t]>>

\* the export of either branch: CSV writes the table to one file; XLSX
\* needs openpyxl (main returns without it) and writes the sheets; a
\* workbook left without any sheet fails when it is saved
Export ==
    /\ pc = "export"
    /\ LET t == IF style = "WIDE" THEN wide ELSE long_df
       IN \E mode \in {"CSV", "XLSX"}, openpyxl \in BOOLEAN :
            IF mode = "XLSX"
            THEN IF ~openpyxl
                 THEN pc' = "returned" /\ UNCHANGED <<groups, written>>
                 ELSE /\ groups' = SheetsOf(t)
                      /\ IF groups' = <<>>
                         THEN pc' = "crashed" /\ UNCHANGED written
                         ELSE pc' = "done" /\ written' = "xlsx"
            ELSE /\ pc' = "done"
                 /\ written' = "csv"
                 /\ UNCHANGED groups
    /\ UNCHANGED <<sheetVars, labVars, lpVars, resVars, cfgVars, rnaVars,
                   in_file, out_dir, csv, df, date_col, val_col,
                   group_cols, style, wide, long_df, rename_map>>

(***************************************************************************)
(* The sheet-name specification: one call of safe_sheet_name, or the       *)
(* naming of one group's sheet.                                            *)
(***************************************************************************)
InitSheet ==
    /\ pc = "sheet_start"
    /\ IdleSheet /\ IdleLabel /\ IdleLong /\ IdleMain /\ IdleResolve /\ IdleConfig /\ IdleRna

CallSafeSheetName ==
    /\ pc = "sheet_start"
    /\ \E a \in SheetArgs :
        /\ sheet_arg' = a
        /\ sheet' = safe_sheet_name(a)
    /\ pc' = "sheet_named"
    /\ UNCHANGED <<sheet_keys, labVars, lpVars, mainVars, resVars, cfgVars, rnaVars>>

NameGroupSheet ==
    /\ pc = "sheet_start"
    /\ \E k \in GroupKeys :
        /\ sheet_keys' = k
        /\ sheet' = SheetForGroup(k)
    /\ pc' = "sheet_grouped"
    /\ UNCHANGED <<sheet_arg, labVars, lpVars, mainVars, resVars, cfgVars, rnaVars>>

NextSheet == CallSafeSheetName \/ NameGroupSheet

SpecSheet == InitSheet /\ [][NextSheet]_vars
(***************************************************************************)
(* The long-projection specification: make_long_df on an input table, then *)
(* make_long_df with the same arguments on the table it returned.          *)
(***************************************************************************)

LongSchemas ==
    {<<StateName, DateLocal, PollutantName, ArithmeticMean>>,
     <<SampleID, PollutantName, DateName, ArithmeticMean, StateName>>,
     <<DateName, FirstMaxValue, StateName, SampleDuration>>}

\* the cells a column of an input table may hold, as pd.read_csv yields them
LongCells(c) ==
    CASE c \in {DateName, DateLocal} -> {Str(IsoDay1), Str(NotADate)}
      [] c \in {ArithmeticMean, FirstMaxValue} ->
            {Num(152000), Str(FourDecimals), Str(NotANumber)}
      [] c = StateName -> {Str(Maryland), NaN}
      [] c = PollutantName -> {Str(NO2)}
      [] c = SampleID -> {Str(SampleId1)}
      [] OTHER -> {Str(Hours24)}

RECURSIVE LongRows(_)
LongRows(schema) ==
    IF Len(schema) = 0 THEN {<<>>}
    ELSE {<<x>> \o r : x \in LongCells(schema[1]), r \in LongRows(Tail(schema))}

LongTablesOf(schema) ==
    {[cols |-> schema, rows |-> rows] :
        rows \in UNION {Tuples(LongRows(schema), k) : k \in 0..MaxRows}}

LongTables == UNION {LongTablesOf(schema) : schema \in LongSchemas}

\* the date column the configurator resolves for a table
LongDateCol(t) == coalesce(t, LONG_BASE_CANDIDATES.date).s
\* the value column the configurator resolves for a table
LongValueCol(t) == coalesce(t, <<ArithmeticMean, FirstMaxValue>>).s

\* the value columns the configurator can return for a table: the resolved
\* one, or (without "Arithmetic Mean") any column the user names
LongValueCols(t) ==
    {LongValueCol(t)}
    \cup (IF HasCol(t, ArithmeticMean) THEN {}
          ELSE Range(t.cols) \cap {SampleDuration, PollutantName})

InitLong ==
    /\ pc = "lp_start"
    /\ IdleSheet /\ IdleLabel /\ IdleMain /\ IdleResolve /\ IdleConfig /\ IdleRna
    /\ lp_df \in LongTables
    /\ lp_date_col = LongDateCol(lp_df)
    /\ lp_value_col \in LongValueCols(lp_df)
    /\ lp_group_cols \in {<<>>, <<StateName>>, <<StateName, lp_date_col>>,
                          <<StateName, StateName>>, <<lp_value_col, StateName>>}
    /\ lp_first = Raised("", EmptyTable)
    /\ lp_second = Raised("", EmptyTable)

Project ==
    /\ pc = "lp_start"
    /\ lp_first' = make_long_df(lp_df, lp_date_col, lp_value_col, lp_group_cols)
    /\ pc' = "lp_projected"
    /\ UNCHANGED <<lp_df, lp_date_col, lp_value_col, lp_group_cols, lp_second,
                   sheetVars, labVars, mainVars, resVars, cfgVars, rnaVars>>

Reproject ==
    /\ pc = "lp_projected"
    /\ lp_first.raised = ""
    /\ lp_second' = make_long_df(lp_first.df, lp_date_col, lp_value_col,
                                 lp_group_cols)
    /\ pc' = "lp_reprojected"
    /\ UNCHANGED <<lp_df, lp_date_col, lp_value_col, lp_group_cols, lp_first,
                   sheetVars, labVars, mainVars, resVars, cfgVars, rnaVars>>

NextLong == Project \/ Reproject

SpecLong == InitLong /\ [][NextLong]_vars

(***************************************************************************)
(* The label specification: one call of label_style_map.                   *)
(***************************************************************************)
\* the pollutant names "VOC01", "VOC02", ...
VocName(i) == <<"V", "O", "C", Ascii[17 + (i \div 10)], Ascii[17 + (i % 10)]>>

\* k pollutant names, starting from the r-th, in ascending order and wrapping
VocRotated(k, r) == [i \in 1..k |-> VocName(((i + r - 1) % k) + 1)]
\* k pollutant names in descending order
VocDescending(k) == [i \in 1..k |-> VocName(k + 1 - i)]

NoRepeat(xs) == \A i, j \in 1..Len(xs) : i # j => xs[i] # xs[j]

LabelInputs ==
    {xs \in UNION {Tuples({NO2, PM10, PM25, VocName(1)}, k) : k \in 0..MaxPermuted} :
        NoRepeat(xs)}
    \cup {VocDescending(k) : k \in 0..MaxPollutants}
    \cup UNION {{VocRotated(k, r) : r \in 0..(k - 1)} : k \in 1..MaxPollutants}

InitLabel ==
    /\ pc = "lab_start"
    /\ IdleSheet /\ IdleLong /\ IdleMain /\ IdleResolve /\ IdleConfig /\ IdleRna
    /\ lab_pollutants \in LabelInputs
    /\ lab_use_abc \in BOOLEAN
    /\ lab_out = None_

CallLabelStyleMap ==
    /\ pc = "lab_start"
    /\ lab_out' = label_style_map(lab_pollutants, lab_use_abc)
    /\ pc' = "lab_done"
    /\ UNCHANGED <<lab_pollutants, lab_use_abc, sheetVars, lpVars, mainVars, resVars, cfgVars, rnaVars>>

NextLabel == CallLabelStyleMap

SpecLabel == InitLabel /\ [][NextLabel]_vars

(***************************************************************************)
(* The column-resolver specification: one call of coalesce or of           *)
(* pick_first on a table and a list of candidate names.                    *)
(***************************************************************************)
ResolveNames == {DateName, DateLocal, StateName, State}

\* tables of one row whose columns are distinct names, in any order
ResolveTables ==
    {[cols |-> cs, rows |-> <<[i \in 1..Len(cs) |-> Str(Hours24)]>>] :
        cs \in {xs \in UNION {Tuples(ResolveNames, k) : k \in 0..MaxColumns} :
                  NoRepeat(xs)}}

\* candidate lists, a name possibly listed twice
ResolveCandidates == UNION {Tuples(ResolveNames, k) : k \in 0..MaxAliases}

\* the outcome of a resolver call: the value returned, and the table and
\* the list as the call left them (the loop only reads both)
Resolved(v, t, candidates) == [value |-> v, df |-> t, candidates |-> candidates]

InitResolve ==
    /\ pc = "res_start"
    /\ IdleSheet /\ IdleLabel /\ IdleLong /\ IdleMain /\ IdleConfig /\ IdleRna
    /\ res_df \in ResolveTables
    /\ res_candidates \in ResolveCandidates
    /\ res_out = None_

CallCoalesce ==
    /\ pc = "res_start"
    /\ res_out' = Resolved(coalesce(res_df, res_candidates), res_df, res_candidates)
    /\ pc' = "res_coalesce"
    /\ UNCHANGED <<res_df, res_candidates, sheetVars, labVars, lpVars, mainVars,
                   cfgVars, rnaVars>>

CallPickFirst ==
    /\ pc = "res_start"
    /\ res_out' = Resolved(pick_first(res_df, res_candidates), res_df, res_candidates)
    /\ pc' = "res_pick_first"
    /\ UNCHANGED <<res_df, res_candidates, sheetVars, labVars, lpVars, mainVars,
                   cfgVars, rnaVars>>

NextResolve == CallCoalesce \/ CallPickFirst

SpecResolve == InitResolve /\ [][NextResolve]_vars
(***************************************************************************)
(* The configurator specification: one call of choose_grouping on a table, *)
(* with the answers given to the dialogs the call shows.                   *)
(***************************************************************************)
ConfigSchemas ==
    {<<StateName, DateLocal, PollutantName, ArithmeticMean>>,
     <<StateName, PollutantName, ArithmeticMean>>,
     <<StateName, Sampled, PollutantName, FirstMaxValue>>,
     <<StateName, DateGMT, PollutantName, FirstMaxValue>>,
     <<Latitude, Longitude, DateName, PollutantName, ArithmeticMean>>,
     <<Latitude, DateName, PollutantName, ArithmeticMean>>,
     <<State, City, DateObserved, PollutantName, ArithmeticMean, FirstMaxValue>>}

ConfigCell(c, date) ==
    CASE c \in {DateName, DateLocal, DateObserved, DateGMT, Sampled} -> Str(date)
      [] c \in {ArithmeticMean, FirstMaxValue} -> Num(152000)
      [] c \in {Latitude, Longitude} -> Num(392900000)
      [] c = PollutantName -> Str(NO2)
      [] OTHER -> Str(Maryland)

\* one table per schema and date text: a row with that date, then a row
\* with a date that parses
ConfigTables ==
    {[cols |-> schema,
      rows |-> <<[i \in 1..Len(schema) |-> ConfigCell(schema[i], date)],
                 [i \in 1..Len(schema) |-> ConfigCell(schema[i], IsoDay1)]>>] :
        schema \in ConfigSchemas, date \in {IsoDay1, NotADate}}

ConfigValueEntries == ValueEntries \cup {Str(<<>>), Str(PollutantName)}
ConfigChoices == Choices \cup {"county", "site", "cbsa"}
ConfigCustomEntries ==
    CustomEntries
    \cup {Str(StateName \o <<",">> \o StateName),
          Str(County \o <<",">> \o PollutantName \o <<",">> \o County)}

\* the date-column dialog is shown: no default date column was found
DateAsked(t) == coalesce(t, <<DateName, DateLocal, DateObserved, DateGMT>>) = None_
\* the call gets past the date column
DateResolved(t, date_entry) ==
    ~DateAsked(t) \/ (~Falsy(date_entry) /\ HasCol(t, date_entry.s))
\* the value-column dialog is shown
ValueAsked(t, date_entry) ==
    DateResolved(t, date_entry) /\ ~HasCol(t, ArithmeticMean)
\* the call gets past the value column, and asks for the grouping
ValueResolved(t, date_entry, value_entry) ==
    /\ DateResolved(t, date_entry)
    /\ \/ HasCol(t, ArithmeticMean)
       \/ ~Falsy(value_entry) /\ HasCol(t, value_entry.s)

InitConfig ==
    /\ pc = "cfg_start"
    /\ IdleSheet /\ IdleLabel /\ IdleLong /\ IdleMain /\ IdleResolve /\ IdleRna
    /\ cfg_df \in ConfigTables
    /\ cfg_date_entry \in (IF DateAsked(cfg_df) THEN DateEntries ELSE {None_})
    /\ cfg_value_entry \in
        (IF ValueAsked(cfg_df, cfg_date_entry) THEN ConfigValueEntries ELSE {None_})
    /\ cfg_choice \in
        (IF ValueResolved(cfg_df, cfg_date_entry, cfg_value_entry)
         THEN ConfigChoices ELSE {""})
    /\ cfg_custom \in (IF cfg_choice = "custom" THEN ConfigCustomEntries ELSE {None_})
    /\ cfg_out = None_

CallChooseGrouping ==
    /\ pc = "cfg_start"
    /\ cfg_out' = choose_grouping(cfg_df, cfg_date_entry, cfg_value_entry,
                                  cfg_choice, cfg_custom)
    /\ pc' = "cfg_done"
    /\ UNCHANGED <<cfg_df, cfg_date_entry, cfg_value_entry, cfg_choice, cfg_custom,
                   sheetVars, labVars, lpVars, mainVars, resVars, rnaVars>>

NextConfig == CallChooseGrouping

SpecConfig == InitConfig /\ [][NextConfig]_vars
(***************************************************************************)
(* Rosalind/transcribed_dna.py: the function transcribed_dna and the       *)
(* script that reads a DNA string and transcribes it.                      *)
(***************************************************************************)
DnaStrings == UNION {Tuples({"A", "C", "G", "T"}, k) : k \in 0..MaxDna}

\* the outcome of a call: the exception raised ("" when none) and the value
RnaReturned(v) == [raised |-> "", value |-> v]
RnaRaised(e) == [raised |-> e, value |-> None_]

\* transcribed_dna(rna_string): the body reads the name dna_string, which is
\* no parameter or local of the function; it is looked up among the module
\* globals, and is not bound until the script has assigned it
transcribed_dna(arg, global_dna_string) ==
    IF global_dna_string = None_ THEN RnaRaised("NameError")
    ELSE RnaReturned(Str(Replace(global_dna_string.s, "T", "U")))

InitRna ==
    /\ pc = "rna_start"
    /\ IdleSheet /\ IdleLabel /\ IdleLong /\ IdleMain /\ IdleResolve /\ IdleConfig
    /\ dna_string = None_
    /\ rna_arg = None_
    /\ rna_string = None_

\* the script: dna_string = file.read().strip()
ReadDna ==
    /\ pc = "rna_start"
    /\ \E s \in DnaStrings : dna_string' = Str(s)
    /\ pc' = "rna_read"
    /\ UNCHANGED <<rna_arg, rna_string, sheetVars, labVars, lpVars, mainVars,
                   resVars, cfgVars>>

\* the script: rna_string = transcribed_dna(dna_string)
TranscribeRead ==
    /\ pc = "rna_read"
    /\ rna_arg' = dna_string
    /\ rna_string' = transcribed_dna(dna_string, dna_string)
    /\ pc' = "rna_printed"
    /\ UNCHANGED <<dna_string, sheetVars, labVars, lpVars, mainVars, resVars,
                   cfgVars>>

\* a call transcribed_dna(s) from a module that imported the function (the
\* script part does not run, dna_string is not bound), or from the script's
\* own namespace after it ran
CallTranscribedDna ==
    /\ pc \in {"rna_start", "rna_printed"}
    /\ \E s \in DnaStrings :
        /\ rna_arg' = Str(s)
        /\ rna_string' = transcribed_dna(Str(s), dna_string)
    /\ pc' = "rna_called"
    /\ UNCHANGED <<dna_string, sheetVars, labVars, lpVars, mainVars, resVars,
                   cfgVars>>

NextRna == ReadDna \/ TranscribeRead \/ CallTranscribedDna

SpecRna == InitRna /\ [][NextRna]_vars
(***************************************************************************)
(* The specification of main.                                              *)
(***************************************************************************)
Init ==
    /\ pc = "pick_file"
    /\ IdleSheet /\ IdleLabel /\ IdleLong /\ IdleMain
    /\ IdleResolve /\ IdleConfig /\ IdleRna

Next ==
    \/ PickFile \/ ReadCsv \/ CheckPollutant \/ FilterDf \/ ChooseGrouping
    \/ AskStyle \/ PickFolder \/ PivotWide \/ LabelWide \/ MakeLong \/ Export

Spec == Init /\ [][Next]_vars

(***************************************************************************)
(* Claims about the sheet-name sanitizer.                                  *)
(***************************************************************************)
\* the fixed mapping of the sanitizer, character by character
SheetSubst(c) ==
    CASE c \in {"/", ":", "\\", "*", "?"} -> "-"
      [] c = "[" -> "("
      [] c = "]" -> ")"
      [] OTHER -> c

SheetForbidden == {"/", ":", "\\", "*", "?", "[", "]"}

SheetCalled == pc = "sheet_named" /\ sheet_arg.t = "str"

\* C5 as stated: for every input string the result has at most 31
\* characters; a longer input gives exactly the first 31 substituted
\* characters; an input of at most 31 characters gives a result of the
\* same length as the input.
C5_AsStated ==
    SheetCalled =>
        /\ Len(sheet.s) <= 31
        /\ Len(sheet_arg.s) > 31 =>
            /\ Len(sheet.s) = 31
            /\ \A i \in 1..31 : sheet.s[i] = SheetSubst(sheet_arg.s[i])
        /\ Len(sheet_arg.s) <= 31 => Len(sheet.s) = Len(sheet_arg.s)

\* C5 amended: for every input string the result has at most 31 characters;
\* a longer input gives exactly the first 31 substituted characters; a
\* NON-EMPTY input of at most 31 characters gives a result of the same
\* length as the input, and the empty input gives the 6 characters "Sheet1".
C5_SheetNameLength ==
    SheetCalled =>
        /\ Len(sheet.s) <= 31
        /\ Len(sheet_arg.s) > 31 =>
            /\ Len(sheet.s) = 31
            /\ \A i \in 1..31 : sheet.s[i] = SheetSubst(sheet_arg.s[i])
        /\ (Len(sheet_arg.s) <= 31 /\ sheet_arg.s # <<>>) =>
            Len(sheet.s) = Len(sheet_arg.s)
        /\ sheet_arg.s = <<>> => (sheet.s = Sheet1 /\ Len(sheet.s) = 6)

C5_Witness ==
    /\ SheetCalled
    /\ Len(sheet_arg.s) > 31
    /\ Len(sheet.s) = 31
    /\ \E i \in 1..31 : sheet_arg.s[i] \in SheetForbidden

\* C6: for every non-empty input string the result is the input with each
\* of / : \ * ? replaced by -, [ by ( and ] by ), every other character
\* unchanged and in its position; no result contains / : \ * ? [ or ].
C6_SheetNameSubstitution ==
    (SheetCalled /\ sheet_arg.s # <<>>) =>
        /\ Len(sheet.s) <= Len(sheet_arg.s)
        /\ \A i \in 1..Len(sheet.s) : sheet.s[i] = SheetSubst(sheet_arg.s[i])
        /\ \A i \in 1..Len(sheet.s) : sheet.s[i] \notin SheetForbidden

C6_Witness ==
    /\ SheetCalled
    /\ sheet_arg.s # <<>>
    /\ \E i, j \in 1..Len(sheet.s) :
        /\ sheet_arg.s[i] = "*" /\ sheet.s[i] = "-"
        /\ sheet_arg.s[j] = "a" /\ sheet.s[j] = "a"

\* C7: an empty partition key (the empty string or None) gets the fallback
\* name "Sheet1", and the sheet name of every group key, empty or not, is a
\* non-empty string.
C7_SheetNameNeverEmpty ==
    /\ (pc = "sheet_named" /\ Falsy(sheet_arg)) => sheet = Str(Sheet1)
    /\ pc = "sheet_grouped" =>
        /\ sheet.t = "str" /\ sheet.s # <<>>
        /\ (\/ \A i \in 1..Len(sheet_keys) : ~notna(sheet_keys[i])
            \/ (Len(sheet_keys) = 1 /\ sheet_keys[1].s = <<>>))
           => sheet = Str(Sheet1)

C7_Witness ==
    /\ pc = "sheet_grouped"
    /\ Len(sheet_keys) = 2
    /\ \A i \in 1..Len(sheet_keys) : ~notna(sheet_keys[i])
    /\ sheet = Str(Sheet1)
(***************************************************************************)
(* Claims about the column resolver.                                       *)
(***************************************************************************)
\* the positions of the candidates that are columns of the table
C11_Hits == {i \in 1..Len(res_candidates) : res_candidates[i] \in Range(res_df.cols)}

\* C11: coalesce and pick_first return the earliest candidate, in list
\* order, that is a column of the table, and None when no candidate is a
\* column; the table and the candidate list are as they were.
C11_ResolverReturnsEarliest ==
    pc \in {"res_coalesce", "res_pick_first"} =>
        /\ C11_Hits = {} => res_out.value = None_
        /\ C11_Hits # {} =>
            \E i \in C11_Hits :
                /\ \A j \in C11_Hits : i <= j
                /\ res_out.value = Str(res_candidates[i])
        /\ res_out.df = res_df
        /\ res_out.candidates = res_candidates

C11_Witness ==
    /\ pc = "res_coalesce"
    /\ res_df.cols = <<StateName, DateLocal, DateName>>
    /\ res_candidates = <<State, DateLocal, DateName>>
    /\ res_out.value = Str(DateLocal)
(***************************************************************************)
(* Claims about the grouping configurator.                                 *)
(***************************************************************************)
\* C12: whenever choose_grouping raises, the table passed to it has the
\* cell values it had before the call.
C12_AsStated ==
    (pc = "cfg_done" /\ cfg_out.raised # "") => cfg_out.df = cfg_df

\* the value-column preference was supplied: the dialog was shown and
\* answered
C13_Supplied == cfg_value_entry # None_

C14_Listed == CustomParts(cfg_custom.s)

\* the positions of the listed names that are not columns of the table
C14_Unknown == {i \in 1..Len(C14_Listed) : C14_Listed[i] \notin Range(cfg_df.cols)}

\* the k-th smallest element of a set of numbers
C14_Nth(S, k) == CHOOSE i \in S : Cardinality({j \in S : j < i}) = k - 1

\* C14: for a custom grouping list, the call succeeds only if every listed
\* name is a column of the table, and then the grouping columns are the
\* listed names in the order given; otherwise it raises an error that
\* lists every listed name that is not a column, in list order.
C14_CustomGroupingValidated ==
    (pc = "cfg_done" /\ cfg_choice = "custom" /\ ~Falsy(cfg_custom)) =>
        IF C14_Unknown = {}
        THEN /\ cfg_out.raised = ""
             /\ cfg_out.group_cols = C14_Listed
        ELSE /\ cfg_out.raised = "ValueError"
             /\ Len(cfg_out.missing) = Cardinality(C14_Unknown)
             /\ \A k \in 1..Len(cfg_out.missing) :
                    cfg_out.missing[k] = C14_Listed[C14_Nth(C14_Unknown, k)]

C14_Witness ==
    /\ pc = "cfg_done"
    /\ cfg_choice = "custom"
    /\ HasCol(cfg_df, StateName)
    /\ C14_Listed = <<City, StateName, County>>
    /\ cfg_out.raised = "ValueError"
    /\ cfg_out.missing = <<City, County>>
(***************************************************************************)
(* Claims about the label scheme.                                          *)
(***************************************************************************)
\* the position of p among the names of S in lexicographic order
C9_Rank(p, S) == 1 + Cardinality({q \in S : LexLess(q, p)})

\* the i-th letter of A, B, C, ...
C9_Letter(i) == Ascii[33 + i]

\* C9: for every list of distinct pollutant names label_style_map returns a
\* map that depends only on the set of names and the label style: with
\* letter labels the name at position i of the sorted names is labelled
\* "Pollutant <i-th letter> (<name>)", without them every name is its own
\* label.
C9_AsStated ==
    pc = "lab_done" =>
        /\ lab_out.raised = ""
        /\ DOMAIN lab_out.map = Range(lab_pollutants)
        /\ \A p \in Range(lab_pollutants) :
            lab_out.map[p] =
                IF lab_use_abc
                THEN PollutantPrefix
                     \o <<C9_Letter(C9_Rank(p, Range(lab_pollutants)))>>
                     \o <<" ", "(">> \o p \o <<")">>
                ELSE p

\* the statement of C9 for lists of at most 26 names, where
\* label_style_map does not run out of letters
C9_UpTo26 == Len(lab_pollutants) <= 26 => C9_AsStated

(***************************************************************************)
(* Claims about the long projection.                                       *)
(***************************************************************************)
\* the cell of row r of table t in the column named c
CellAt(t, r, c) == Column(t, c)[r]

C3_DateColumnKept ==
    lp_date_col = DateName \/ lp_date_col \in Range(lp_group_cols)

\* the first projection lists the value column once: it is not 'Date' and
\* not the sample-id, pollutant-name or sample-duration column of the table
C3_ValueColumnOnce ==
    lp_value_col \notin
        {DateName}
        \cup (Range(lp_df.cols)
              \cap (Range(LONG_BASE_CANDIDATES.sample_id)
                    \cup Range(LONG_BASE_CANDIDATES.pollutant_name)
                    \cup Range(LONG_BASE_CANDIDATES.sample_duration)))

C4_LongKeepsEveryRow ==
    pc = "lp_projected" =>
        /\ lp_first.raised = ""
        /\ Len(lp_first.df.rows) = Len(lp_df.rows)
        /\ \A r \in 1..Len(lp_df.rows) :
            /\ CellAt(lp_df, r, lp_date_col) = Str(NotADate)
                => CellAt(lp_first.df, r, DateName) = NaT
            /\ CellAt(lp_df, r, lp_value_col) = Str(NotANumber)
                => CellAt(lp_first.df, r, lp_value_col) = NaN
            /\ \A c \in Range(lp_first.df.cols) \ {DateName, lp_value_col} :
                CellAt(lp_first.df, r, c) = CellAt(lp_df, r, c)

C4_Witness ==
    /\ pc = "lp_projected"
    /\ Len(lp_df.rows) = 2
    /\ lp_df.rows[1] = lp_df.rows[2]
    /\ CellAt(lp_df, 1, lp_value_col) = Str(NotANumber)
    /\ CellAt(lp_df, 1, lp_date_col) = Str(NotADate)
    /\ Len(lp_first.df.rows) = 2
    /\ CellAt(lp_first.df, 1, lp_value_col) = NaN


\* the columns the claim lists for the projection of lp_df
C15_Expected ==
    LET Present(names) ==
            LET hits == {i \in 1..Len(names) : names[i] \in Range(lp_df.cols)}
            IN IF hits = {} THEN <<>>
               ELSE <<names[CHOOSE i \in hits : \A j \in hits : i <= j]>>
        base == Present(LONG_BASE_CANDIDATES.sample_id)
                \o Present(LONG_BASE_CANDIDATES.pollutant_name)
                \o Present(LONG_BASE_CANDIDATES.sample_duration)
                \o <<DateName, lp_value_col>>
        New(i) == /\ lp_group_cols[i] \notin Range(base)
                  /\ \A j \in 1..(i - 1) : lp_group_cols[j] # lp_group_cols[i]
        kept == {i \in 1..Len(lp_group_cols) : New(i)}
    IN base \o [k \in 1..Cardinality(kept) |-> lp_group_cols[C14_Nth(kept, k)]]

\* C15: the columns of the projection are the sample-id, pollutant-name
\* and sample-duration columns that the source has, then 'Date', the value
\* column and each grouping column not already included, in the order
\* given; the call does not fail for a missing optional column, and no
\* column appears twice.
C15_AsStated ==
    pc = "lp_projected" =>
        /\ lp_first.raised = ""
        /\ lp_first.df.cols = C15_Expected
        /\ NoRepeat(lp_first.df.cols)

\* C19: make_long_df leaves the caller's table as it was, columns and
\* cells: the 'Date' column and the rounded numbers are written to the
\* table it returns only.
C19_CallerTableUnchanged ==
    /\ pc = "lp_projected" => lp_first.arg = lp_df
    /\ pc = "lp_reprojected" => lp_second.arg = lp_first.df

C19_Witness ==
    /\ pc = "lp_projected"
    /\ lp_date_col = DateLocal
    /\ Len(lp_df.rows) = 1
    /\ CellAt(lp_df, 1, lp_value_col) = Str(FourDecimals)
    /\ lp_first.raised = ""
    /\ HasCol(lp_first.df, DateName)
    /\ CellAt(lp_first.df, 1, lp_value_col) = Num(12350)
    /\ ~HasCol(lp_first.arg, DateName)
    /\ CellAt(lp_first.arg, 1, lp_value_col) = Str(FourDecimals)
(***************************************************************************)
(* Claims about the split into groups and the wide pivot.                  *)
(***************************************************************************)
\* the table the export splits: wide or long_df
Exported == IF style = "WIDE" THEN wide ELSE long_df

\* one sheet per group has been written
SplitDone == pc = "done" /\ written = "xlsx" /\ group_cols # <<>>

\* some cell of a key is missing
HasMissing(key) == \E i \in 1..Len(key) : ~notna(key[i])

\* C1: the sub-tables written by the groupby loop hold, together, exactly
\* as many rows as the table that was split, also when rows have a missing
\* value in a grouping column.
C1_AsStated ==
    SplitDone =>
        SumSeq([g \in 1..Len(groups) |-> Len(groups[g].sub.rows)])
            = Len(Exported.rows)

\* C2: a row whose grouping value is missing still belongs to a group, in
\* the pivot and in the split: its key is a key of the output, distinct from
\* every key without a missing value, and its group holds only rows of that
\* key.
C2_AsStated ==
    /\ SplitDone =>
        \A r \in 1..Len(Exported.rows) :
            LET key == KeyOf(Exported, r, group_cols)
            IN HasMissing(key) =>
                \E g \in 1..Len(groups) :
                    /\ groups[g].keys = key
                    /\ Exported.rows[r] \in Range(groups[g].sub.rows)
                    /\ \A k \in 1..Len(groups[g].sub.rows) :
                        KeyOf(groups[g].sub, k, group_cols) = key
    /\ pc = "label" =>
        \A r \in 1..Len(df.rows) :
            LET key == KeyOf(df, r, IndexCols)
            IN (/\ HasMissing(KeyOf(df, r, group_cols))
                /\ notna(CellAt(df, r, date_col))
                /\ notna(CellAt(df, r, val_col)))
               => \E k \in 1..Len(wide.rows) : KeyOf(wide, k, IndexCols) = key

\* the mean of the value column over the rows of df with index key `key`
\* and pollutant p, missing values left out; missing when there are none
C8_MeanOf(key, p) ==
    LET rs == {r \in 1..Len(df.rows) :
                 /\ KeyOf(df, r, IndexCols) = key
                 /\ CellAt(df, r, PollutantName) = Str(p)
                 /\ CellAt(df, r, val_col).t = "num"}
        RECURSIVE Total(_)
        Total(S) == IF S = {} THEN 0
                    ELSE LET r == CHOOSE x \in S : TRUE
                         IN CellAt(df, r, val_col).n + Total(S \ {r})
    IN IF rs = {} THEN [num |-> 0, den |-> 0]
       ELSE [num |-> Total(rs), den |-> Cardinality(rs)]

\* C8: the pivot has exactly one row per distinct index key (grouping
\* values, date) of the input; each pollutant cell is the mean of the value
\* column over the input rows of that key and pollutant, and is missing,
\* not zero, when there are none.
C8_AsStated ==
    pc = "label" =>
        LET keys == {KeyOf(df, r, IndexCols) : r \in 1..Len(df.rows)}
        IN /\ {KeyOf(wide, k, IndexCols) : k \in 1..Len(wide.rows)} = keys
           /\ Len(wide.rows) = Cardinality(keys)
           /\ \A k \in 1..Len(wide.rows) :
                \A p \in {NO2, PM25} :
                    LET m == C8_MeanOf(KeyOf(wide, k, IndexCols), p)
                    IN IF m.den = 0
                       THEN HasCol(wide, p) => CellAt(wide, k, p) = NaN
                       ELSE /\ HasCol(wide, p)
                            /\ CellAt(wide, k, p).t = "num"
                            /\ CellAt(wide, k, p).n * m.den
                                 = m.num * CellAt(wide, k, p).d

\* the positions of the pollutant-labelled columns of wide
C10_Labelled == {i \in 1..Len(wide.cols) : wide.cols[i] \notin Range(IndexCols)}

\* C10: after renaming, no two pollutant columns of the wide table carry
\* the same label, with either label style.
C10_LabelsDistinct ==
    (pc \in {"export", "done"} /\ style = "WIDE") =>
        /\ \A i, j \in C10_Labelled : i # j => wide.cols[i] # wide.cols[j]
        /\ Cardinality(C10_Labelled) = Cardinality(DOMAIN rename_map)

C10_Witness ==
    /\ pc = "done"
    /\ style = "WIDE"
    /\ Cardinality(C10_Labelled) = 2
    /\ HasCol(wide, PollutantPrefix \o <<"A", " ", "(", "N", "O", "2", ")">>)
    /\ HasCol(wide, PollutantPrefix \o <<"B", " ", "(", "P", "M", "2", ".", "5", ")">>)


\* C16: the wide table's columns are the date column, then the pollutant
\* columns in ascending order of their labels, then the grouping columns in
\* the order chosen, with either label style and any date column name.
C16_WideColumnOrder ==
    (pc \in {"export", "done"} /\ style = "WIDE") =>
        LET k == Cardinality(DOMAIN rename_map)
            labels == {rename_map[p] : p \in DOMAIN rename_map}
        IN /\ Len(wide.cols) = 1 + k + Len(group_cols)
           /\ wide.cols[1] = date_col
           /\ \A i \in 2..(k + 1) : wide.cols[i] \in labels
           /\ \A i \in 2..k : LexLess(wide.cols[i], wide.cols[i + 1])
           /\ SubSeq(wide.cols, k + 2, Len(wide.cols)) = group_cols

C16_Witness ==
    /\ pc = "export"
    /\ style = "WIDE"
    /\ date_col = Sampled
    /\ wide.cols = <<Sampled, NO2, PM25, StateName>>
    /\ wide.rows = <<<<DateV(20250110), Num(152000), Num(98100), Str(Maryland)>>>>

\* the rows of the table as read that contribute to the cell of row k of
\* the pivot and pollutant p
C17_Contributing(k, p) ==
    {r \in 1..Len(csv.rows) :
        /\ KeyOf(df, r, IndexCols) = KeyOf(wide, k, IndexCols)
        /\ CellAt(csv, r, PollutantName) = Str(p)}

\* the value entry of row r as read is text that is no number
C17_NotNumeric(r) == CellAt(csv, r, val_col) = Str(NotANumber)

\* the number of the value entry of row r, in ten-thousandths, rounded to
\* three decimals
C17_Number(r) ==
    IF CellAt(csv, r, val_col) = Str(FourDecimals) THEN 12350
    ELSE CellAt(csv, r, val_col).n

RECURSIVE C17_Sum(_)
C17_Sum(S) ==
    IF S = {} THEN 0
    ELSE LET r == CHOOSE x \in S : TRUE IN C17_Number(r) + C17_Sum(S \ {r})

\* C17: a value entry that is no number makes the pivot step neither fail
\* nor count it: the entry becomes a missing cell of the value column, the
\* other entries become their numbers, each pivot cell is the mean of the
\* numbers among its contributing entries (the divisor counts only those,
\* and no entry counts as 0), and a cell whose contributing entries are
\* all non-numeric is missing.
C17_NonNumericExcluded ==
    pc = "label" =>
        /\ \A r \in 1..Len(csv.rows) :
            IF C17_NotNumeric(r) THEN CellAt(df, r, val_col) = NaN
            ELSE CellAt(df, r, val_col) = Num(C17_Number(r))
        /\ \A k \in 1..Len(wide.rows) :
            \A p \in {NO2, PM25} :
                HasCol(wide, p) =>
                    LET nums == {r \in C17_Contributing(k, p) : ~C17_NotNumeric(r)}
                        cell == CellAt(wide, k, p)
                    IN IF nums = {} THEN cell = NaN
                       ELSE /\ cell.t = "num"
                            /\ cell.n * Cardinality(nums) = C17_Sum(nums) * cell.d

C17_Witness ==
    /\ pc = "label"
    /\ csv = MixedTable
    /\ group_cols = <<StateName>>
    /\ Len(wide.rows) = 2
    /\ CellAt(wide, 2, NO2) = Num(152000)
    /\ CellAt(wide, 2, PM25) = NaN
    /\ CellAt(wide, 1, NO2) = NaN
    /\ CellAt(wide, 1, PM25) = Num(98100)

\* every step that comes before a write has succeeded
C20_SetupDone ==
    /\ in_file # ""
    /\ csv # EmptyTable
    /\ HasCol(csv, PollutantName)
    /\ date_col # <<>> /\ val_col # <<>>
    /\ out_dir # ""

\* each step is taken only once the steps before it have succeeded
C20_InOrder ==
    /\ csv' # csv => in_file # ""
    /\ date_col' # date_col => (csv # EmptyTable /\ HasCol(csv, PollutantName))
    /\ out_dir' # out_dir => (date_col # <<>> /\ val_col # <<>>)
    /\ written' # written => (out_dir # "" /\ written = "")

\* C20: main writes a file only after an input file was selected and read,
\* the table was found to hold 'Pollutant Name', choose_grouping returned
\* without error and an output folder was selected, in this order; when one
\* of these steps fails or is cancelled, main returns and no file is
\* written.
C20_WriteOnlyAfterSetup ==
    /\ [](written # "" => C20_SetupDone)
    /\ [][C20_InOrder]_vars
    /\ []((pc = "returned" \/ ~C20_SetupDone) => written = "")

C20_Witness ==
    /\ pc = "done"
    /\ written = "xlsx"
    /\ style = "LONG"
    /\ C20_SetupDone
    /\ Len(groups) = 2

\* C21: in the one-sheet-per-group export, two groups with distinct keys
\* are never written to the same sheet name.
C21_AsStated ==
    SplitDone =>
        \A g, h \in 1..Len(groups) :
            groups[g].keys # groups[h].keys => groups[g].sheet # groups[h].sheet
(***************************************************************************)
(* Claims about transcribed_dna.                                           *)
(***************************************************************************)
\* C18: a call of transcribed_dna returns its argument with every 'T'
\* replaced by 'U' and every other character as it is, whatever the module
\* global dna_string holds.
C18_AsStated ==
    pc \in {"rna_printed", "rna_called"} =>
        /\ rna_string.raised = ""
        /\ Len(rna_string.value.s) = Len(rna_arg.s)
        /\ \A i \in 1..Len(rna_arg.s) :
            rna_string.value.s[i] = IF rna_arg.s[i] = "T" THEN "U" ELSE rna_arg.s[i]
====
